---- MODULE Spec2Model ----
(***************************************************************************)
(* DP-enhanced LSB steganography (core_engine.py, utils.py).               *)
(*                                                                         *)
(* The state is the file system holding RGB images, together with the      *)
(* record of the last embedding call and of the last extraction call.      *)
(* embed, embed_standard_lsb and extract are one action each.              *)
(*                                                                         *)
(* Conventions                                                             *)
(*  - a string (message, path) is a sequence; a message is a sequence of   *)
(*    code points, a path a sequence of one-character strings;             *)
(*  - an array of shape (H, W, 3) is a function arr[row][col][channel],    *)
(*    all three 0-based as in the source;                                  *)
(*  - a Python list / 1-d ndarray is a 1-based TLA+ sequence: element i    *)
(*    of the source is element i+1 here;                                   *)
(*  - a real number is a fraction <<numerator, denominator>> with a        *)
(*    positive denominator;                                                *)
(*  - a call that raises returns [raised |-> <kind>], one that returns     *)
(*    has raised = "none".                                                 *)
(***************************************************************************)
EXTENDS Integers, Sequences, FiniteSets, TLC

\* ------------------------------------------------------------------ bounds
\* longest message drawn, in characters
MaxMsgLen == 3
\* Laplace samples drawn: every multiple of 1/NoiseDen in [-k/NoiseDen, k/NoiseDen]
MaxNoiseUnits == 2

\* denominator of the noise samples (samples are multiples of one half)
NoiseDen == 2
\* a sample far outside every image capacity of the model, either sign
BigNoiseUnits == 2000

Min(a, b) == IF a <= b THEN a ELSE b
Max(a, b) == IF a >= b THEN a ELSE b

\* ------------------------------------------------------------ input domains
\* code points of the characters messages are drawn from: 'A', and one
\* character outside the single-byte range
Chars == {65, 300}
Messages == UNION {[1..n -> Chars] : n \in 0..MaxMsgLen}
Passwords == {"secret", "wrong"}
\* 0.005 and 1.0
Epsilons == {<<5, 1000>>, <<1, 1>>}
\* outcomes of np.random.laplace, as fractions
NoiseSamples ==
    {<<n, NoiseDen>> : n \in (-MaxNoiseUnits..MaxNoiseUnits) \cup {-BigNoiseUnits, BigNoiseUnits}}
\* streams of np.random.randint(0, 2) outcomes, repeated cyclically
DecoyStreams == {<<0>>, <<1>>, <<0, 1>>, <<1, 1, 0>>}

\* --------------------------------------------------------------- utils.py
\* hashlib.sha256(password.encode('utf-8')).digest()[:8], as computed by
\* the library for the passwords of the model
sha256_prefix(password) ==
    CASE password = "secret" -> <<43, 184, 13, 83, 123, 29, 163, 227>>
      [] password = "wrong"  -> <<136, 16, 173, 88, 30, 89, 242, 188>>

\* int.from_bytes(hash_bytes[:8], byteorder='big'): the 64-bit seed, kept as
\* its eight base-256 digits, most significant first
password_to_seed(password) == sha256_prefix(password)

RECURSIVE BinDigits(_)
\* the binary digits of v >= 0, most significant first, no leading zero
BinDigits(v) == IF v < 2 THEN <<v>> ELSE BinDigits(v \div 2) \o <<v % 2>>

\* format(ascii_val, '08b'): zero-padded to a MINIMUM width of 8
format_08b(ascii_val) ==
    LET d == BinDigits(ascii_val)
    IN  IF Len(d) >= 8 THEN d ELSE [i \in 1..(8 - Len(d)) |-> 0] \o d

RECURSIVE string_to_bits(_)
string_to_bits(text) ==
    IF text = <<>> THEN <<>>
    ELSE format_08b(Head(text)) \o string_to_bits(Tail(text))

RECURSIVE int_base2(_)
\* int(binary_str, 2) of a non-empty digit sequence
int_base2(byte) ==
    IF Len(byte) = 1 THEN byte[1]
    ELSE 2 * int_base2(SubSeq(byte, 1, Len(byte) - 1)) + byte[Len(byte)]

RECURSIVE bits_to_string_DropPartial(_)
\* a decoder that stops before a trailing chunk of fewer than 8 bits
bits_to_string_DropPartial(bits) ==
    IF Len(bits) < 8 THEN <<>>
    ELSE <<int_base2(SubSeq(bits, 1, 8))>>
           \o bits_to_string_DropPartial(SubSeq(bits, 9, Len(bits)))

RECURSIVE bits_to_string(_)
\* for i in range(0, len(bits), 8): the last chunk may be shorter than 8
bits_to_string(bits) ==
    IF bits = <<>> THEN <<>>
    ELSE LET n == Min(8, Len(bits))
         IN  <<int_base2(SubSeq(bits, 1, n))>>
               \o bits_to_string(SubSeq(bits, n + 1, Len(bits)))

\* np.arange(n)
arange(n) == [i \in 1..n |-> i - 1]

\* The bit generator behind np.random.default_rng(seed).  numpy's PCG64 is a
\* 128-bit generator; here it is a 16-bit linear congruential generator
\* seeded from the digits of the seed.  What the engine relies on is kept:
\* the stream is a function of the seed alone.
RngModulus == 65536
RngMultiplier == 25173
RngIncrement == 13849

RECURSIVE FoldSeed(_, _)
FoldSeed(digits, acc) ==
    IF digits = <<>> THEN acc
    ELSE FoldSeed(Tail(digits), (acc * 31 + Head(digits)) % RngModulus)

default_rng(seed) == FoldSeed(seed, 7)

rng_next(state) == (RngMultiplier * state + RngIncrement) % RngModulus

\* a draw in 0..bound from the generator state
rng_bounded(state, bound) == (state \div 16) % (bound + 1)

Swap(seq, a, b) == [seq EXCEPT ![a] = seq[b], ![b] = seq[a]]

RECURSIVE ShuffleFrom(_, _, _)
\* Generator.shuffle: for i in reversed(range(1, n)): j = draw in 0..i; swap i, j
ShuffleFrom(state, seq, i) ==
    IF i < 1 THEN seq
    ELSE LET s == rng_next(state)
             j == rng_bounded(s, i)
         IN  ShuffleFrom(s, Swap(seq, i + 1, j + 1), i - 1)

rng_shuffle(state, seq) == ShuffleFrom(state, seq, Len(seq) - 1)

\* a slice that runs one element too far
SlicePrefix_OneTooMany(seq, n) == SubSeq(seq, 1, Min(Max(n, 0) + 1, Len(seq)))

\* seq[:n] of Python, for any integer n
SlicePrefix(seq, n) ==
    IF n >= 0 THEN SubSeq(seq, 1, Min(n, Len(seq)))
    ELSE SubSeq(seq, 1, Max(0, Len(seq) + n))

\* a permutation sized to the request instead of the whole domain
ShuffleDomain_Requested(total_channels, num_channels) == arange(Max(num_channels, 0))

\* which domain get_pixel_indices shuffles: all of [0, total_channels)
ShuffleDomain(total_channels, num_channels) == arange(total_channels)

get_pixel_indices(image_shape, num_channels, seed) ==
    LET total_channels == image_shape[1] * image_shape[2] * image_shape[3]
    IN  IF num_channels > total_channels
        THEN [raised |-> "ValueError: requested too many channels", val |-> <<>>]
        ELSE [raised |-> "none",
              val |-> SlicePrefix(
                          rng_shuffle(default_rng(seed),
                                      ShuffleDomain(total_channels, num_channels)),
                          num_channels)]

\* ------------------------------------------------------------- file system
\* str.lower() on one character
UpperCase == <<"A", "B", "C", "D", "E", "F", "G", "H", "I", "J", "K", "L", "M",
               "N", "O", "P", "Q", "R", "S", "T", "U", "V", "W", "X", "Y", "Z">>
LowerCase == <<"a", "b", "c", "d", "e", "f", "g", "h", "i", "j", "k", "l", "m",
               "n", "o", "p", "q", "r", "s", "t", "u", "v", "w", "x", "y", "z">>
lower_char(ch) ==
    IF \E i \in 1..Len(UpperCase) : UpperCase[i] = ch
    THEN LowerCase[CHOOSE i \in 1..Len(UpperCase) : UpperCase[i] = ch]
    ELSE ch

\* a comparison that keeps the case
lower_Identity(s) == s

lower(s) == [i \in 1..Len(s) |-> lower_char(s[i])]

endswith(s, suffix) ==
    /\ Len(s) >= Len(suffix)
    /\ SubSeq(s, Len(s) - Len(suffix) + 1, Len(s)) = suffix

\* s.rsplit('.', 1)[0]: what precedes the last '.', or all of s without one
rsplit_dot_head(s) ==
    IF \E i \in 1..Len(s) : s[i] = "."
    THEN LET last == CHOOSE i \in 1..Len(s) :
                        s[i] = "." /\ \A j \in (i + 1)..Len(s) : s[j] # "."
         IN  SubSeq(s, 1, last - 1)
    ELSE s

DotPng == <<".", "p", "n", "g">>

\* core_engine.py: if not save_path.lower().endswith('.png'): ...
png_save_path(save_path) ==
    IF ~endswith(lower(save_path), DotPng)
    THEN rsplit_dot_head(save_path) \o DotPng
    ELSE save_path

\* the paths callers name
PathCover == <<"c", ".", "p", "n", "g">>
PathCoverJpg == <<"c", ".", "j", "p", "g">>
PathOut == <<"s">>
PathMissing == <<"m", ".", "p", "n", "g">>

SavePaths == {PathCoverJpg, PathOut}
CoverPaths == {PathCover, PathMissing}

\* --------------------------------------------------------------- images
\* the sample a cover image of the model holds at flat index i
CoverSample(i) == (i * 85 + 255) % 256

\* np.array(Image.open(path).convert("RGB")): height x width x 3 samples
MkImage(height, width) ==
    [height |-> height, width |-> width,
     arr |-> [row \in 0..(height - 1) |->
               [col \in 0..(width - 1) |->
                 [channel \in 0..2 |->
                    CoverSample(row * width * 3 + col * 3 + channel)]]]]

\* height, width of the cover images of the model
Shapes == {<<1, 3>>, <<2, 4>>}
CoverImages == {MkImage(sh[1], sh[2]) : sh \in Shapes}

shape(img) == <<img.height, img.width, 3>>

\* the value an image holds at a flat slot index (utils.py, index_to_pixel)
channel_value(img, channel_index) ==
    img.arr[channel_index \div (img.width * 3)]
           [(channel_index % (img.width * 3)) \div 3]
           [channel_index % 3]

\* ------------------------------------------------------------ core_engine.py
RECURSIVE BitAnd(_, _)
BitAnd(a, b) ==
    IF a = 0 \/ b = 0 THEN 0
    ELSE 2 * BitAnd(a \div 2, b \div 2) + (IF a % 2 = 1 /\ b % 2 = 1 THEN 1 ELSE 0)

RECURSIVE BitOr(_, _)
BitOr(a, b) ==
    IF a = 0 THEN b ELSE IF b = 0 THEN a
    ELSE 2 * BitOr(a \div 2, b \div 2) + (IF a % 2 = 1 \/ b % 2 = 1 THEN 1 ELSE 0)

\* 0xFE
LsbMask == 254

\* a mask that also clears bit 1
lsb_substitute_WideMask(pixel_value, bit_to_embed) ==
    BitOr(BitAnd(pixel_value, LsbMask - 2), bit_to_embed)

\* a write that forgets the pixel value
lsb_substitute_Overwrite(pixel_value, bit_to_embed) == bit_to_embed

\* (pixel_value & 0xFE) | bit_to_embed
lsb_substitute(pixel_value, bit_to_embed) ==
    BitOr(BitAnd(pixel_value, LsbMask), bit_to_embed)

\* rounding down instead of toward zero
int_trunc_Floor(x) ==
    IF x[1] >= 0 \/ x[1] % x[2] = 0 THEN x[1] \div x[2] ELSE -((-x[1]) \div x[2]) - 1

\* int(x) of a fraction: truncation toward zero
int_trunc(x) ==
    IF x[1] >= 0 THEN x[1] \div x[2] ELSE -((-x[1]) \div x[2])

FracLess(x, y) == x[1] * y[2] < y[1] * x[2]

\* 0.01
EpsilonFloor == <<1, 100>>
\* a floor of 0.1 instead of 0.01
clamp_epsilon_TenthFloor(epsilon) ==
    IF FracLess(epsilon, <<1, 10>>) THEN <<1, 10>> ELSE epsilon

\* max(0.01, epsilon)
clamp_epsilon(epsilon) == IF FracLess(epsilon, EpsilonFloor) THEN EpsilonFloor ELSE epsilon

sensitivity == 8

\* every decoy the first draw of the stream
decoy_bit_Stuck(decoy, j) == decoy[1]

\* the j-th decoy draw (j = 0, 1, ...) of a stream
decoy_bit(decoy, j) == decoy[(j % Len(decoy)) + 1]

\* which bit the embedding loop writes at position bit_index of the path
bit_to_embed(message_bits, true_count, decoy, bit_index) ==
    IF bit_index < true_count
    THEN message_bits[bit_index + 1]
    ELSE decoy_bit(decoy, bit_index - true_count)

RECURSIVE embed_loop(_, _, _, _, _, _, _)
\* for bit_index, channel_index in enumerate(pixel_indices): ...
embed_loop(stego_array, pixel_indices, message_bits, true_count, width, decoy, bit_index) ==
    IF bit_index >= Len(pixel_indices) THEN stego_array
    ELSE LET channels == 3
             channel_index == pixel_indices[bit_index + 1]
             row == channel_index \div (width * channels)
             col == (channel_index % (width * channels)) \div channels
             channel == channel_index % channels
             pixel_value == stego_array[row][col][channel]
             new_pixel_value ==
                 lsb_substitute(pixel_value,
                                bit_to_embed(message_bits, true_count, decoy, bit_index))
         IN  embed_loop([stego_array EXCEPT ![row][col][channel] = new_pixel_value],
                        pixel_indices, message_bits, true_count, width, decoy,
                        bit_index + 1)

\* stego_image.save(path, "PNG"): lossless
save_png(files, path, img) ==
    [p \in (DOMAIN files) \cup {path} |-> IF p = path THEN img ELSE files[p]]

Raise(kind, files) ==
    [raised |-> kind, files |-> files, ret |-> <<>>, path_request |-> -1]

\* a check that also rejects the message that fills the image exactly
message_fits_Strict(true_count, total_capacity) == ~(true_count >= total_capacity)

\* no capacity check at all
message_fits_Unchecked(true_count, total_capacity) == TRUE

\* the count embed accepts: raise when the message has more bits than slots
message_fits(true_count, total_capacity) == ~(true_count > total_capacity)

\* the floor without the clip to capacity
channels_to_modify_NoClip(true_count, noisy_count, total_capacity) ==
    Max(true_count, noisy_count)

\* the clip without the floor at the message's bit count
channels_to_modify_NoFloor(true_count, noisy_count, total_capacity) ==
    Min(noisy_count, total_capacity)


\* total_channels_to_modify of embed
channels_to_modify(true_count, noisy_count, total_capacity) ==
    Min(Max(true_count, noisy_count), total_capacity)

\* embed(cover_image_path, message, password, epsilon, save_path) on the
\* file system `files`, with `noise` the Laplace sample drawn and `decoy`
\* the stream of decoy bits drawn.  path_request records the count handed to
\* get_pixel_indices.
embed(files, cover_image_path, message, password, epsilon, save_path, noise, decoy) ==
    IF cover_image_path \notin DOMAIN files
    THEN Raise("FileNotFoundError", files)
    ELSE
    LET img == files[cover_image_path]
        img_array == img.arr
        height == img.height
        width == img.width
        channels == 3
        message_bits == string_to_bits(message)
        true_count == Len(message_bits)
        total_capacity == height * width * channels
    IN  IF ~message_fits(true_count, total_capacity)
        THEN Raise("ValueError: message too large", files)
        ELSE
        LET eps == clamp_epsilon(epsilon)
            laplace_scale == <<sensitivity * eps[2], eps[1]>>
            noisy_count == true_count + int_trunc(noise)
            total_channels_to_modify ==
                channels_to_modify(true_count, noisy_count, total_capacity)
            seed == password_to_seed(password)
            pixel_indices ==
                get_pixel_indices(shape(img), total_channels_to_modify, seed)
        IN  IF pixel_indices.raised # "none"
            THEN [Raise(pixel_indices.raised, files)
                    EXCEPT !.path_request = total_channels_to_modify]
            ELSE
            LET stego_array ==
                    embed_loop(img_array, pixel_indices.val, message_bits,
                               true_count, width, decoy, 0)
                stego_image == [height |-> height, width |-> width, arr |-> stego_array]
                out_path == png_save_path(save_path)
            IN  [raised |-> "none",
                 files |-> save_png(files, out_path, stego_image),
                 path_request |-> total_channels_to_modify,
                 ret |-> [message_length_bits |-> true_count,
                          message_length_chars |-> Len(message),
                          noisy_count |-> noisy_count,
                          noise_added |-> noisy_count - true_count,
                          total_pixels_modified |-> total_channels_to_modify,
                          decoy_pixels |-> total_channels_to_modify - true_count,
                          epsilon |-> eps,
                          laplace_scale |-> laplace_scale,
                          total_capacity |-> total_capacity,
                          capacity_used_percent |->
                              <<total_channels_to_modify * 100, total_capacity>>,
                          image_dimensions |-> <<width, height>>,
                          save_path |-> out_path]]

RECURSIVE extract_loop(_, _, _, _)
\* for channel_index in pixel_indices: ... extracted_bits.append(pixel_value & 1)
extract_loop(img_array, pixel_indices, width, k) ==
    IF k > Len(pixel_indices) THEN <<>>
    ELSE LET channels == 3
             channel_index == pixel_indices[k]
             row == channel_index \div (width * channels)
             col == (channel_index % (width * channels)) \div channels
             channel == channel_index % channels
             pixel_value == img_array[row][col][channel]
             lsb == BitAnd(pixel_value, 1)
         IN  <<lsb>> \o extract_loop(img_array, pixel_indices, width, k + 1)

\* a check that also rejects a request for every slot
length_fits_Strict(message_length_bits, total_capacity) ==
    ~(message_length_bits >= total_capacity)

\* a check that also rejects a count that is not a whole number of bytes
length_fits_ByteAligned(message_length_bits, total_capacity) ==
    ~(message_length_bits > total_capacity) /\ message_length_bits % 8 = 0

\* the count extract accepts: raise when more bits are asked than slots exist
length_fits(message_length_bits, total_capacity) ==
    ~(message_length_bits > total_capacity)

\* extract(stego_image_path, password, message_length_bits) on the file
\* system `files`.  reads records the flat slot indices whose value the loop
\* read, in order.
extract(files, stego_image_path, password, message_length_bits) ==
    IF stego_image_path \notin DOMAIN files
    THEN [raised |-> "FileNotFoundError", val |-> <<>>, reads |-> <<>>]
    ELSE
    LET img == files[stego_image_path]
        total_capacity == img.height * img.width * 3
    IN  IF ~length_fits(message_length_bits, total_capacity)
        THEN [raised |-> "ValueError: invalid message length", val |-> <<>>,
              reads |-> <<>>]
        ELSE
        LET seed == password_to_seed(password)
            pixel_indices == get_pixel_indices(shape(img), message_length_bits, seed)
        IN  IF pixel_indices.raised # "none"
            THEN [raised |-> pixel_indices.raised, val |-> <<>>, reads |-> <<>>]
            ELSE [raised |-> "none",
                  val |-> bits_to_string(
                              extract_loop(img.arr, pixel_indices.val, img.width, 1)),
                  reads |-> pixel_indices.val]

RECURSIVE standard_channel_loop_TwoChannels(_, _, _, _, _)
\* a channel loop that never writes the third channel of a pixel
standard_channel_loop_TwoChannels(acc, message_bits, row, col, channel) ==
    IF channel >= 2 \/ acc.bit_index >= Len(message_bits) THEN acc
    ELSE LET pixel_value == acc.arr[row][col][channel]
             new_pixel_value ==
                 lsb_substitute(pixel_value, message_bits[acc.bit_index + 1])
         IN  standard_channel_loop_TwoChannels(
                 [arr |-> [acc.arr EXCEPT ![row][col][channel] = new_pixel_value],
                  bit_index |-> acc.bit_index + 1],
                 message_bits, row, col, channel + 1)

RECURSIVE standard_channel_loop(_, _, _, _, _)
\* for channel in range(channels): if bit_index >= message_length: break ...
standard_channel_loop(acc, message_bits, row, col, channel) ==
    IF channel >= 3 \/ acc.bit_index >= Len(message_bits) THEN acc
    ELSE LET pixel_value == acc.arr[row][col][channel]
             new_pixel_value ==
                 lsb_substitute(pixel_value, message_bits[acc.bit_index + 1])
         IN  standard_channel_loop(
                 [arr |-> [acc.arr EXCEPT ![row][col][channel] = new_pixel_value],
                  bit_index |-> acc.bit_index + 1],
                 message_bits, row, col, channel + 1)

RECURSIVE standard_col_loop(_, _, _, _, _)
\* for col in range(width): ...; if bit_index >= message_length: break
standard_col_loop(acc, message_bits, width, row, col) ==
    IF col >= width THEN acc
    ELSE LET done == standard_channel_loop(acc, message_bits, row, col, 0)
         IN  IF done.bit_index >= Len(message_bits) THEN done
             ELSE standard_col_loop(done, message_bits, width, row, col + 1)

RECURSIVE standard_row_loop(_, _, _, _, _)
\* for row in range(height): ...; if bit_index >= message_length: break
standard_row_loop(acc, message_bits, height, width, row) ==
    IF row >= height THEN acc
    ELSE LET done == standard_col_loop(acc, message_bits, width, row, 0)
         IN  IF done.bit_index >= Len(message_bits) THEN done
             ELSE standard_row_loop(done, message_bits, height, width, row + 1)

\* embed_standard_lsb(cover_image_path, message, save_path)
embed_standard_lsb(files, cover_image_path, message, save_path) ==
    IF cover_image_path \notin DOMAIN files
    THEN Raise("FileNotFoundError", files)
    ELSE
    LET img == files[cover_image_path]
        message_bits == string_to_bits(message)
        message_length == Len(message_bits)
        total_capacity == img.height * img.width * 3
    IN  IF ~message_fits(message_length, total_capacity)
        THEN Raise("ValueError: message too large", files)
        ELSE
        LET stego_array ==
                standard_row_loop([arr |-> img.arr, bit_index |-> 0],
                                  message_bits, img.height, img.width, 0).arr
            stego_image ==
                [height |-> img.height, width |-> img.width, arr |-> stego_array]
            out_path == png_save_path(save_path)
        IN  [raised |-> "none",
             files |-> save_png(files, out_path, stego_image),
             path_request |-> -1,
             ret |-> [message_length_bits |-> message_length,
                      message_length_chars |-> Len(message),
                      total_pixels_modified |-> message_length,
                      total_capacity |-> total_capacity,
                      capacity_used_percent |-> <<message_length * 100, total_capacity>>,
                      image_dimensions |-> <<img.width, img.height>>,
                      save_path |-> out_path,
                      method |-> "Standard Sequential LSB (No DP)"]]

\* --------------------------------------------------------------- the state
\* fs:          the image files, path -> image
\* lastEmbed:   the embedding call made (its arguments, the file system it
\*              found, the Laplace sample it drew, what it returned or
\*              raised), op = "none" before it
\* lastExtract: the extraction call made, op = "none" before it
\* probe:       direct calls of one function (get_pixel_indices,
\*              generate_random_lsb_image, the analysis functions)
\* np_random:   the state of numpy's global generator, which np.random.seed
\*              sets and np.random.laplace and np.random.randint advance.
\*              The specifications that draw the noise sample and the decoy
\*              bits as arbitrary values do not follow it ("entropy").
VARIABLES fs, lastEmbed, lastExtract, probe, np_random

vars == <<fs, lastEmbed, lastExtract, probe, np_random>>

NoCall == [op |-> "none"]

Init ==
    /\ \E img \in CoverImages : fs = [p \in {PathCover} |-> img]
    /\ lastEmbed = NoCall
    /\ lastExtract = NoCall
    /\ probe = NoCall
    /\ np_random = "entropy"

\* One call of embed.  A run embeds once, before it extracts: the stego
\* image is then what the extraction reads.
Embed ==
    /\ lastEmbed.op = "none"
    /\ lastExtract.op = "none"
    /\ \E cover_image_path \in CoverPaths, message \in Messages,
          password \in Passwords, epsilon \in Epsilons, save_path \in SavePaths,
          noise \in NoiseSamples, decoy \in DecoyStreams :
          LET out == embed(fs, cover_image_path, message, password, epsilon,
                           save_path, noise, decoy)
          IN  /\ fs' = out.files
              /\ lastEmbed' =
                   [op |-> "embed", cover_image_path |-> cover_image_path,
                    message |-> message, password |-> password,
                    epsilon |-> epsilon, save_path |-> save_path,
                    noise |-> IF out.raised = "none" THEN noise ELSE <<>>,
                    before |-> fs, raised |-> out.raised, ret |-> out.ret,
                    path_request |-> out.path_request]
    /\ UNCHANGED <<lastExtract, probe, np_random>>

\* One call of embed_standard_lsb.
EmbedStandard ==
    /\ lastEmbed.op = "none"
    /\ lastExtract.op = "none"
    /\ \E cover_image_path \in CoverPaths, message \in Messages,
          save_path \in SavePaths :
          LET out == embed_standard_lsb(fs, cover_image_path, message, save_path)
          IN  /\ fs' = out.files
              /\ lastEmbed' =
                   [op |-> "embed_standard_lsb",
                    cover_image_path |-> cover_image_path,
                    message |-> message, save_path |-> save_path,
                    before |-> fs, raised |-> out.raised, ret |-> out.ret,
                    path_request |-> out.path_request]
    /\ UNCHANGED <<lastExtract, probe, np_random>>

capacity(img) == img.height * img.width * 3

\* the bit counts extraction is asked for: from below zero to beyond capacity
BitCounts(img) == -1..(capacity(img) + 1)

\* One call of extract.  What it records depends on nothing an earlier
\* extraction left behind, so a run makes one.
Extract ==
    /\ lastExtract.op = "none"
    /\ \E stego_image_path \in DOMAIN fs, password \in Passwords :
       \E message_length_bits \in BitCounts(fs[stego_image_path]) :
          LET out == extract(fs, stego_image_path, password, message_length_bits)
          IN  lastExtract' =
                [op |-> "extract", stego_image_path |-> stego_image_path,
                 password |-> password, message_length_bits |-> message_length_bits,
                 raised |-> out.raised, val |-> out.val, reads |-> out.reads]
    /\ UNCHANGED <<fs, lastEmbed, probe, np_random>>

Next == Embed \/ EmbedStandard \/ Extract

Spec == Init /\ [][Next]_vars

\* ------------------------------------------- get_pixel_indices on its own
\* how many calls of get_pixel_indices one probe makes
MaxProbeCalls == 2

InitPath ==
    /\ fs = <<>>
    /\ lastEmbed = NoCall
    /\ lastExtract = NoCall
    /\ np_random = "entropy"
    /\ \E sh \in Shapes, password \in Passwords :
          probe = [op |-> "get_pixel_indices",
                   image_shape |-> <<sh[1], sh[2], 3>>,
                   seed |-> password_to_seed(password),
                   calls |-> <<>>]

\* One call of get_pixel_indices with the probe's shape and seed.
CallGetPixelIndices ==
    /\ Len(probe.calls) < MaxProbeCalls
    /\ \E num_channels \in
            -1..(probe.image_shape[1] * probe.image_shape[2] * probe.image_shape[3] + 1) :
          probe' = [probe EXCEPT !.calls =
                      Append(@, [num_channels |-> num_channels,
                                 out |-> get_pixel_indices(probe.image_shape,
                                                           num_channels, probe.seed)])]
    /\ UNCHANGED <<fs, lastEmbed, lastExtract, np_random>>

NextPath == CallGetPixelIndices

SpecPath == InitPath /\ [][NextPath]_vars

\* --------------------------------------------- numpy's global generator
\* np.random.seed, np.random.laplace and np.random.randint work on one
\* generator of the process.  It is modelled with the stand-in generator of
\* default_rng above: each draw advances the state once.

\* the states the operating system's entropy may have seeded it with
EntropyStates == {1, 21845, 43690}

\* seed = 42 when none is given
DefaultSeed == 42

\* the seed argument: <<>> for None, <<n>> for the integer n
Seeds == {<<>>, <<7>>}

\* np.random.seed(seed)
np_random_seed(seed) == FoldSeed(<<seed>>, 7)

\* the quantile function of Laplace(0, 1) at the midpoints of eight equal
\* bins of (0, 1), as fractions
StdLaplaceQuantiles ==
    << <<-208, 100>>, <<-98, 100>>, <<-47, 100>>, <<-13, 100>>,
       <<13, 100>>, <<47, 100>>, <<98, 100>>, <<208, 100>> >>

\* np.random.laplace(loc=0, scale=scale): one draw, scaled
np_random_laplace(state, scale) ==
    LET s == rng_next(state)
        q == StdLaplaceQuantiles[rng_bounded(s, 7) + 1]
    IN  [state |-> s, val |-> <<scale[1] * q[1], scale[2] * q[2]>>]

RECURSIVE rng_after(_, _)
\* the generator state after n draws
rng_after(state, n) ==
    IF n <= 0 THEN state ELSE rng_next(rng_after(state, n - 1))

\* n successive draws of np.random.randint(0, high): the i-th draw is taken
\* from the state after i steps
np_random_randint(state, high, n) ==
    [state |-> rng_after(state, n),
     val |-> [i \in 1..n |-> rng_bounded(rng_after(state, i), high - 1)]]

\* generate_random_lsb_image(width, height, save_path, seed) on the file
\* system `files` with the global generator in `state`; the path <<>> is the
\* save_path that `if save_path:` skips (None or empty)
generate_random_lsb_image(files, state, width, height, save_path, seed) ==
    LET seeded == np_random_seed(IF seed = <<>> THEN DefaultSeed ELSE seed[1])
        draw == np_random_randint(seeded, 256, height * width * 3)
        img == [height |-> height, width |-> width,
                arr |-> [row \in 0..(height - 1) |->
                          [col \in 0..(width - 1) |->
                            [channel \in 0..2 |->
                               draw.val[row * width * 3 + col * 3 + channel + 1]]]]]
    IN  IF save_path # <<>>
        THEN [files |-> save_png(files, png_save_path(save_path), img),
              np_random |-> draw.state, ret |-> png_save_path(save_path)]
        ELSE [files |-> files, np_random |-> draw.state, ret |-> <<>>]

\* embed(...) drawing its Laplace sample and its decoy bits from the global
\* generator in `state`: np.random.laplace once, then np.random.randint once
\* for every decoy slot
embed_np(files, state, cover_image_path, message, password, epsilon, save_path) ==
    LET eps == clamp_epsilon(epsilon)
        laplace_scale == <<sensitivity * eps[2], eps[1]>>
        lap == np_random_laplace(state, laplace_scale)
        slots == IF cover_image_path \in DOMAIN files
                 THEN capacity(files[cover_image_path]) ELSE 1
        stream == np_random_randint(lap.state, 2, slots)
        out == embed(files, cover_image_path, message, password, epsilon,
                     save_path, lap.val, stream.val)
    IN  [out |-> out,
         noise |-> lap.val,
         np_random |->
             IF out.raised = "none"
             THEN np_random_randint(lap.state, 2, out.ret.decoy_pixels).state
             ELSE state]

\* the epsilon values a caller may pass, zero and below included
EpsilonProbes == {<<-1, 1>>, <<0, 1>>, <<5, 1000>>, <<1, 100>>, <<1, 2>>,
                  <<1, 1>>, <<10, 1>>}

InitRng ==
    /\ \E img \in CoverImages : fs = [p \in {PathCover} |-> img]
    /\ lastEmbed = NoCall
    /\ lastExtract = NoCall
    /\ probe = NoCall
    /\ np_random \in EntropyStates

\* One call of generate_random_lsb_image, before the embedding: the test
\* workflow generates its cover, then embeds in it.
GenerateRandomLsbImage ==
    /\ probe.op = "none"
    /\ lastEmbed.op = "none"
    /\ \E sh \in Shapes, save_path \in {<<>>, PathCover}, seed \in Seeds :
          LET out == generate_random_lsb_image(fs, np_random, sh[2], sh[1],
                                               save_path, seed)
          IN  /\ fs' = out.files
              /\ np_random' = out.np_random
              /\ probe' = [op |-> "generate_random_lsb_image",
                           width |-> sh[2], height |-> sh[1],
                           save_path |-> save_path, seed |-> seed,
                           np_random_before |-> np_random, ret |-> out.ret]
    /\ UNCHANGED <<lastEmbed, lastExtract>>

\* One call of embed, its draws taken from the global generator.
EmbedNp ==
    /\ lastEmbed.op = "none"
    /\ \E cover_image_path \in CoverPaths, message \in Messages,
          password \in Passwords, epsilon \in EpsilonProbes,
          save_path \in SavePaths :
          LET call == embed_np(fs, np_random, cover_image_path, message,
                               password, epsilon, save_path)
              out == call.out
          IN  /\ fs' = out.files
              /\ np_random' = call.np_random
              /\ lastEmbed' =
                   [op |-> "embed", cover_image_path |-> cover_image_path,
                    message |-> message, password |-> password,
                    epsilon |-> epsilon, save_path |-> save_path,
                    noise |-> IF out.raised = "none" THEN call.noise ELSE <<>>,
                    before |-> fs, raised |-> out.raised, ret |-> out.ret,
                    path_request |-> out.path_request,
                    np_random_before |-> np_random]
    /\ UNCHANGED <<lastExtract, probe>>

NextRng == GenerateRandomLsbImage \/ EmbedNp

SpecRng == InitRng /\ [][NextRng]_vars

\* ----------------------------------------------------------- steganalysis.py
\* Real numbers are fractions <<numerator, denominator>>, denominator > 0.
FracSub(x, y) == <<x[1] * y[2] - y[1] * x[2], x[2] * y[2]>>
FracAbs(x) == <<IF x[1] < 0 THEN -x[1] ELSE x[1], x[2]>>

ChannelRed == <<"r", "e", "d">>
ChannelGreen == <<"g", "r", "e", "e", "n">>
ChannelBlue == <<"b", "l", "u", "e">>
ChannelAll == <<"a", "l", "l">>

\* the channel arguments callers pass
ChannelArgs == {ChannelRed, ChannelGreen, ChannelBlue, ChannelAll,
                <<"R", "e", "d">>, <<"r", "g", "b">>}

\* img_array[:, :, c].flatten()
channel_plane(img, c) ==
    [i \in 1..(img.height * img.width) |-> channel_value(img, (i - 1) * 3 + c)]

\* img_array.flatten()
flatten(img) == [i \in 1..capacity(img) |-> channel_value(img, i - 1)]

\* np.sum((channel_data & 1) == b)
count_lsb(channel_data, b) ==
    Cardinality({i \in 1..Len(channel_data) : BitAnd(channel_data[i], 1) = b})

\* a statistic whose expected frequencies are the total, not half of it
chisquare_WholeExpected(count_0, count_1, total) ==
    <<(count_0 - total) * (count_0 - total) + (count_1 - total) * (count_1 - total),
      total>>

\* scipy.stats.chisquare(f_obs=[count_0, count_1], f_exp=[total/2, total/2]):
\* the statistic, sum of (observed - expected)^2 / expected
chisquare(count_0, count_1, total) ==
    <<(2 * count_0 - total) * (2 * count_0 - total)
        + (2 * count_1 - total) * (2 * count_1 - total),
      2 * total>>

\* The p-value of a statistic is the survival function of the chi-square
\* distribution with one degree of freedom, which decreases in the
\* statistic: p < level exactly when the statistic exceeds the level's
\* critical value (3.8415 for 0.05, 1.6424 for 0.2).  A p-value is kept as
\* the statistic it is the p-value of.
CriticalValue(level) ==
    IF level = <<5, 100>> THEN <<38415, 10000>> ELSE <<16424, 10000>>

p_value_less(p_value, level) == FracLess(CriticalValue(level), p_value.chi2_sf)

alpha == <<5, 100>>

\* chi_square_attack(image_path, channel) on the file system `files`
chi_square_attack(files, image_path, channel) ==
    IF image_path \notin DOMAIN files
    THEN [raised |-> "FileNotFoundError", ret |-> <<>>]
    ELSE IF lower(channel) \notin {ChannelRed, ChannelGreen, ChannelBlue, ChannelAll}
    THEN [raised |-> "ValueError: Channel must be 'red', 'green', 'blue', or 'all'",
          ret |-> <<>>]
    ELSE
    LET img == files[image_path]
        ch == lower(channel)
        channel_data ==
            IF ch = ChannelRed THEN channel_plane(img, 0)
            ELSE IF ch = ChannelGreen THEN channel_plane(img, 1)
            ELSE IF ch = ChannelBlue THEN channel_plane(img, 2)
            ELSE flatten(img)
        channel_name ==
            IF ch = ChannelRed THEN "Red"
            ELSE IF ch = ChannelGreen THEN "Green"
            ELSE IF ch = ChannelBlue THEN "Blue"
            ELSE "All (RGB)"
        count_0 == count_lsb(channel_data, 0)
        count_1 == count_lsb(channel_data, 1)
        total == Len(channel_data)
        chi2_stat == chisquare(count_0, count_1, total)
        p_value == [chi2_sf |-> chi2_stat]
        actual_percent_0 == <<count_0 * 100, total>>
        actual_percent_1 == <<count_1 * 100, total>>
        deviation == FracAbs(FracSub(actual_percent_0, <<50, 1>>))
        significant == p_value_less(p_value, alpha)
    IN  [raised |-> "none",
         ret |-> [channel |-> channel_name,
                  total_pixels |-> total,
                  lsb_0_count |-> count_0,
                  lsb_1_count |-> count_1,
                  lsb_0_percent |-> actual_percent_0,
                  lsb_1_percent |-> actual_percent_1,
                  deviation_from_50_50 |-> deviation,
                  chi_square_statistic |-> chi2_stat,
                  p_value |-> p_value,
                  verdict |-> IF significant THEN "NON-RANDOM LSB DISTRIBUTION"
                              ELSE "RANDOM-LOOKING LSB DISTRIBUTION",
                  detection_confidence |->
                      IF significant THEN "High"
                      ELSE IF p_value_less(p_value, <<2, 10>>) THEN "Low"
                      ELSE "Very Low",
                  threshold_alpha |-> alpha]]

\* a change that keeps its sign
deviation_change_Signed(stego_deviation, original_deviation) ==
    FracSub(stego_deviation, original_deviation)

\* abs(stego_result['deviation_from_50_50'] - original_result[...])
deviation_change(stego_deviation, original_deviation) ==
    FracAbs(FracSub(stego_deviation, original_deviation))

\* compare_images(original_path, stego_path).  p_value_change is kept as the
\* pair of p-values it is the difference of.
compare_images(files, original_path, stego_path) ==
    LET original_result == chi_square_attack(files, original_path, ChannelAll)
        stego_result == chi_square_attack(files, stego_path, ChannelAll)
    IN  IF original_result.raised # "none"
        THEN [raised |-> original_result.raised, ret |-> <<>>]
        ELSE IF stego_result.raised # "none"
        THEN [raised |-> stego_result.raised, ret |-> <<>>]
        ELSE
        LET change == deviation_change(stego_result.ret.deviation_from_50_50,
                                       original_result.ret.deviation_from_50_50)
            rating ==
                IF FracLess(change, <<1, 2>>) THEN "EXCELLENT"
                ELSE IF FracLess(change, <<1, 1>>) THEN "GOOD"
                ELSE IF FracLess(change, <<2, 1>>) THEN "FAIR"
                ELSE "POOR"
            color ==
                IF FracLess(change, <<1, 2>>) THEN "green"
                ELSE IF FracLess(change, <<1, 1>>) THEN "lightgreen"
                ELSE IF FracLess(change, <<2, 1>>) THEN "yellow"
                ELSE "red"
        IN  [raised |-> "none",
             ret |-> [original |-> original_result.ret,
                      stego |-> stego_result.ret,
                      changes |->
                          [p_value_change |-> <<stego_result.ret.p_value,
                                                original_result.ret.p_value>>,
                           deviation_change |-> change,
                           original_deviation |->
                               original_result.ret.deviation_from_50_50,
                           stego_deviation |-> stego_result.ret.deviation_from_50_50,
                           detection_changed |->
                               original_result.ret.verdict # stego_result.ret.verdict],
                      effectiveness |-> [rating |-> rating, color |-> color]]]

\* multi_channel_analysis(image_path)
multi_channel_analysis(files, image_path) ==
    LET channels == <<ChannelRed, ChannelGreen, ChannelBlue>>
        results == [i \in 1..3 |-> chi_square_attack(files, image_path, channels[i])]
    IN  IF \E i \in 1..3 : results[i].raised # "none"
        THEN [raised |-> results[1].raised, ret |-> <<>>]
        ELSE
        LET IsDetected(i) == results[i].ret.verdict = "DETECTED"
            any_detected == \E i \in 1..3 : IsDetected(i)
        IN  [raised |-> "none",
             ret |-> [red |-> results[1].ret,
                      green |-> results[2].ret,
                      blue |-> results[3].ret,
                      overall_verdict |->
                          IF any_detected THEN "DETECTED" ELSE "UNDETECTED",
                      channels_detected |->
                          SelectSeq(<<1, 2, 3>>, IsDetected)]]

\* a squared difference computed in uint8, without astype(float)
squared_error_Uint8(a, b) == ((((a - b) % 256) * ((a - b) % 256))) % 256

\* (orig_img.astype(float) - stego_img.astype(float)) ** 2, one element
squared_error(a, b) == (a - b) * (a - b)

RECURSIVE SumSeq(_)
SumSeq(seq) == IF seq = <<>> THEN 0 ELSE Head(seq) + SumSeq(Tail(seq))

\* psnr > db for db in {40, 30, 20}, psnr = 20 * log10(255 / sqrt(mse)):
\* mse < 255^2 / 10^(db / 10), i.e. 6.5025, 65.025, 650.25
psnr_greater(mse, db) ==
    IF db = 40 THEN FracLess(mse, <<2601, 400>>)
    ELSE IF db = 30 THEN FracLess(mse, <<2601, 40>>)
    ELSE FracLess(mse, <<2601, 4>>)

\* calculate_visual_difference(original_path, stego_path).  A finite psnr is
\* kept as the mse it is computed from.
calculate_visual_difference(files, original_path, stego_path) ==
    IF original_path \notin DOMAIN files \/ stego_path \notin DOMAIN files
    THEN [raised |-> "FileNotFoundError", ret |-> <<>>]
    ELSE
    LET orig_img == files[original_path]
        stego_img == files[stego_path]
    IN  IF shape(orig_img) # shape(stego_img)
        THEN [raised |-> "ValueError: Images must have the same dimensions",
              ret |-> <<>>]
        ELSE
        LET o == flatten(orig_img)
            t == flatten(stego_img)
            total_pixels == Len(o)
            mse == <<SumSeq([i \in 1..total_pixels |-> squared_error(o[i], t[i])]),
                     total_pixels>>
            psnr == [inf |-> mse[1] = 0, of_mse |-> mse]
            pixels_changed == Cardinality({i \in 1..total_pixels : o[i] # t[i]})
        IN  [raised |-> "none",
             ret |-> [mse |-> mse,
                      psnr |-> psnr,
                      quality_rating |->
                          IF psnr.inf THEN "Identical (no changes)"
                          ELSE IF psnr_greater(mse, 40)
                          THEN "Excellent (imperceptible changes)"
                          ELSE IF psnr_greater(mse, 30)
                          THEN "Good (barely perceptible)"
                          ELSE IF psnr_greater(mse, 20)
                          THEN "Fair (noticeable if inspected)"
                          ELSE "Poor (visibly different)",
                      pixels_changed |-> pixels_changed,
                      total_pixels |-> total_pixels,
                      percent_pixels_changed |->
                          <<pixels_changed * 100, total_pixels>>]]

\* --------------------------------------------- the analysis functions
\* The images analysed: height x width of AnalysisShape, the first `ones`
\* slots of an order holding least significant bit 1, every value raised by
\* an even `shift`.  The second file differs from the first in its count of
\* ones or in its shift, or is an image of another shape.
AnalysisShape == <<6, 6>>
AnalysisSlots == AnalysisShape[1] * AnalysisShape[2] * 3

\* the orders slots are filled in: raster order, or one colour plane after
\* the other
FillOrders == {"raster", "planar"}

fill_rank(i, order) ==
    IF order = "raster" THEN i
    ELSE (i % 3) * (AnalysisShape[1] * AnalysisShape[2]) + (i \div 3)

AnalysisSample(i, ones, order, shift) ==
    2 * ((i * 37) % 100) + (IF fill_rank(i, order) < ones THEN 1 ELSE 0) + shift

AnalysisImage(ones, order, shift) ==
    [height |-> AnalysisShape[1], width |-> AnalysisShape[2],
     arr |-> [row \in 0..(AnalysisShape[1] - 1) |->
               [col \in 0..(AnalysisShape[2] - 1) |->
                 [channel \in 0..2 |->
                    AnalysisSample(row * AnalysisShape[2] * 3 + col * 3 + channel,
                                   ones, order, shift)]]]]

\* by how many slots the second image's count of ones differs from the first's
MaxLsbDelta == 3

\* by how much the second image's values are raised
Shifts == {0, 4, 16, 30}

PathStego == <<"s", ".", "p", "n", "g">>

InitAnalysis ==
    /\ lastEmbed = NoCall
    /\ lastExtract = NoCall
    /\ probe = NoCall
    /\ np_random = "entropy"
    /\ \E ones \in 0..AnalysisSlots, order \in FillOrders :
          \/ \E delta \in (-MaxLsbDelta)..MaxLsbDelta, shift \in Shifts :
               /\ ones + delta \in 0..AnalysisSlots
               /\ delta = 0 \/ shift = 0
               /\ fs = [p \in {PathCover, PathStego} |->
                          IF p = PathCover THEN AnalysisImage(ones, order, 0)
                          ELSE AnalysisImage(ones + delta, order, shift)]
          \/ \E small \in CoverImages :
               /\ ones = 0
               /\ fs = [p \in {PathCover, PathStego} |->
                          IF p = PathCover THEN AnalysisImage(ones, order, 0)
                          ELSE small]

\* One call of chi_square_attack.
ChiSquareAttack ==
    /\ probe.op = "none"
    /\ \E image_path \in {PathCover, PathMissing}, channel \in ChannelArgs :
          LET out == chi_square_attack(fs, image_path, channel)
          IN  probe' = [op |-> "chi_square_attack", image_path |-> image_path,
                        channel |-> channel, raised |-> out.raised, ret |-> out.ret]
    /\ UNCHANGED <<fs, lastEmbed, lastExtract, np_random>>

\* One call of compare_images.
CompareImages ==
    /\ probe.op = "none"
    /\ \E original_path \in {PathCover, PathStego}, stego_path \in {PathCover, PathStego} :
          LET out == compare_images(fs, original_path, stego_path)
          IN  probe' = [op |-> "compare_images", original_path |-> original_path,
                        stego_path |-> stego_path, raised |-> out.raised,
                        ret |-> out.ret]
    /\ UNCHANGED <<fs, lastEmbed, lastExtract, np_random>>

\* One call of multi_channel_analysis.
MultiChannelAnalysis ==
    /\ probe.op = "none"
    /\ \E image_path \in {PathCover, PathMissing} :
          LET out == multi_channel_analysis(fs, image_path)
          IN  probe' = [op |-> "multi_channel_analysis", image_path |-> image_path,
                        raised |-> out.raised, ret |-> out.ret]
    /\ UNCHANGED <<fs, lastEmbed, lastExtract, np_random>>

\* One call of calculate_visual_difference.
CalculateVisualDifference ==
    /\ probe.op = "none"
    /\ \E original_path \in {PathCover, PathStego}, stego_path \in {PathCover, PathStego} :
          LET out == calculate_visual_difference(fs, original_path, stego_path)
          IN  probe' = [op |-> "calculate_visual_difference",
                        original_path |-> original_path, stego_path |-> stego_path,
                        raised |-> out.raised, ret |-> out.ret]
    /\ UNCHANGED <<fs, lastEmbed, lastExtract, np_random>>

NextAnalysis ==
    \/ ChiSquareAttack
    \/ CompareImages
    \/ MultiChannelAnalysis
    \/ CalculateVisualDifference

SpecAnalysis == InitAnalysis /\ [][NextAnalysis]_vars

\* ----------------------------------- calculate_epsilon_visibility on its own
\* a rule that needs only one of its two conditions
is_visible_Either(capacity_percent, noise_difference) ==
    ~FracLess(capacity_percent, <<5, 1>>) \/ ~FracLess(noise_difference, <<10, 1>>)

\* visible = capacity_percent >= 5 and noise_difference >= 10
is_visible(capacity_percent, noise_difference) ==
    ~FracLess(capacity_percent, <<5, 1>>) /\ ~FracLess(noise_difference, <<10, 1>>)

\* calculate_epsilon_visibility(message_bits, image_capacity, epsilon_low,
\* epsilon_high); the recommendation is kept as the sentence it opens with
calculate_epsilon_visibility(message_bits, image_capacity, epsilon_low, epsilon_high) ==
    IF image_capacity = 0
    THEN [raised |-> "ZeroDivisionError", ret |-> <<>>]
    ELSE
    LET low == clamp_epsilon(epsilon_low)
        high == clamp_epsilon(epsilon_high)
        scale_low == <<sensitivity * low[2], low[1]>>
        scale_high == <<sensitivity * high[2], high[1]>>
        noise_difference == FracAbs(FracSub(scale_low, scale_high))
        capacity_percent == <<message_bits * 100, image_capacity>>
        visible == is_visible(capacity_percent, noise_difference)
    IN  [raised |-> "none",
         ret |-> [scale_low_epsilon |-> scale_low,
                  scale_high_epsilon |-> scale_high,
                  expected_noise_difference |-> noise_difference,
                  capacity_usage_percent |-> capacity_percent,
                  statistically_visible |-> visible,
                  recommendation |->
                      IF visible THEN "Epsilon effects WILL be visible"
                      ELSE IF FracLess(capacity_percent, <<5, 1>>)
                      THEN "Epsilon effects NOT visible - capacity usage too low"
                      ELSE "Epsilon effects MARGINAL"]]

\* the largest message bit count passed
MaxVisibilityBits == 10

\* the capacities passed: 8 bits are 5 percent of 160, 9 of 180, 10 of 200
VisibilityCapacities == {0, 24, 160, 180, 200}

\* the epsilon values passed: 8 / 0.4 - 8 / 0.8 is 10
VisibilityEpsilons == {<<-1, 1>>, <<0, 1>>, <<1, 100>>, <<1, 10>>, <<4, 10>>,
                       <<8, 10>>, <<1, 1>>, <<5, 1>>}

InitVisibility ==
    /\ fs = <<>>
    /\ lastEmbed = NoCall
    /\ lastExtract = NoCall
    /\ probe = NoCall
    /\ np_random = "entropy"

\* One call of calculate_epsilon_visibility.
CalculateEpsilonVisibility ==
    /\ probe.op = "none"
    /\ \E message_bits \in 0..MaxVisibilityBits,
          image_capacity \in VisibilityCapacities,
          epsilon_low \in VisibilityEpsilons, epsilon_high \in VisibilityEpsilons :
          LET out == calculate_epsilon_visibility(message_bits, image_capacity,
                                                  epsilon_low, epsilon_high)
          IN  probe' = [op |-> "calculate_epsilon_visibility",
                        message_bits |-> message_bits,
                        image_capacity |-> image_capacity,
                        epsilon_low |-> epsilon_low, epsilon_high |-> epsilon_high,
                        raised |-> out.raised, ret |-> out.ret]
    /\ UNCHANGED <<fs, lastEmbed, lastExtract, np_random>>

NextVisibility == CalculateEpsilonVisibility

SpecVisibility == InitVisibility /\ [][NextVisibility]_vars

\* ------------------------------------------------ gui.py, the testing lab
\* test_original.png, test_standard_lsb.png, test_dp_lsb.png of the
\* temporary directory
PathTestOriginal == <<"o", ".", "p", "n", "g">>
PathTestStandard == <<"l", ".", "p", "n", "g">>
PathTestDp == <<"d", ".", "p", "n", "g">>

\* the test messages typed: none, or characters 'A' and 'z'
LabChars == {65, 122}
LabMessages == UNION {[1..n -> LabChars] : n \in 0..MaxMsgLen}

\* the test epsilon: 0.1
LabEpsilons == {<<1, 10>>}

InitLab ==
    /\ fs = <<>>
    /\ lastEmbed = NoCall
    /\ lastExtract = NoCall
    /\ probe = NoCall
    /\ np_random = "entropy"

\* what a run of the comparison test leaves: the files and the outcome shown
ComparisonShown(sh, message, epsilon, password, seed, noise, files, raised, ret) ==
    /\ fs' = files
    /\ probe' = [op |-> "run_comparison_test",
                 width |-> sh[2], height |-> sh[1],
                 message |-> message, epsilon |-> epsilon,
                 password |-> password, seed |-> seed,
                 noise |-> IF raised = "none" THEN noise ELSE <<>>,
                 raised |-> raised, ret |-> ret]

\* One run of run_comparison_test with the synthetic image source, `noise`
\* and `decoy` being what embed draws.  Each result is bound once, in the
\* order the handler computes them; an exception ends the run with the error
\* shown.
RunComparisonTest ==
    /\ probe.op = "none"
    /\ \E sh \in Shapes, message \in LabMessages, epsilon \in LabEpsilons,
          password \in Passwords, seed \in Seeds \ {<<>>},
          noise \in NoiseSamples, decoy \in DecoyStreams :
          IF message = <<>>
          THEN ComparisonShown(sh, message, epsilon, password, seed, noise, fs,
                               "Error: Please enter a test message!", <<>>)
          ELSE
          \E generated \in {generate_random_lsb_image(
                                fs, np_random_seed(seed[1]), sh[2], sh[1],
                                PathTestOriginal, seed)} :
          \E original_analysis \in {chi_square_attack(
                                        generated.files, PathTestOriginal, ChannelAll)} :
          \E standard_result \in {embed_standard_lsb(
                                      generated.files, PathTestOriginal, message,
                                      PathTestStandard)} :
          IF standard_result.raised # "none"
          THEN ComparisonShown(sh, message, epsilon, password, seed, noise,
                               standard_result.files, standard_result.raised, <<>>)
          ELSE
          \E standard_analysis \in {chi_square_attack(
                                        standard_result.files, PathTestStandard,
                                        ChannelAll)} :
          \E visual_standard \in {calculate_visual_difference(
                                      standard_result.files, PathTestOriginal,
                                      PathTestStandard)} :
          \E dp_result \in {embed(standard_result.files, PathTestOriginal, message,
                                  password, epsilon, PathTestDp, noise, decoy)} :
          IF dp_result.raised # "none"
          THEN ComparisonShown(sh, message, epsilon, password, seed, noise,
                               dp_result.files, dp_result.raised, <<>>)
          ELSE
          \E dp_analysis \in {chi_square_attack(dp_result.files, PathTestDp,
                                                ChannelAll)} :
          \E visual_dp \in {calculate_visual_difference(
                                dp_result.files, PathTestOriginal, PathTestDp)} :
          \E standard_comparison \in {compare_images(
                                          dp_result.files, PathTestOriginal,
                                          PathTestStandard)} :
          \E dp_comparison \in {compare_images(dp_result.files, PathTestOriginal,
                                               PathTestDp)} :
              ComparisonShown(
                  sh, message, epsilon, password, seed, noise, dp_result.files, "none",
                  [original_analysis |-> original_analysis.ret,
                   standard_result |-> standard_result.ret,
                   standard_analysis |-> standard_analysis.ret,
                   visual_standard |-> visual_standard.ret,
                   dp_result |-> dp_result.ret,
                   dp_analysis |-> dp_analysis.ret,
                   visual_dp |-> visual_dp.ret,
                   standard_comparison |-> standard_comparison.ret,
                   dp_comparison |-> dp_comparison.ret])
    /\ UNCHANGED <<lastEmbed, lastExtract, np_random>>

NextLab == RunComparisonTest

SpecLab == InitLab /\ [][NextLab]_vars

\* ------------------------------------------------ core_engine.py, two runs
\* where the second run saves its stego image
PathAgain == <<"t">>

\* A second call of embed with the arguments of the first, but its own
\* Laplace sample and decoy bits, saving to another path.
EmbedAgain ==
    /\ lastEmbed.op = "embed"
    /\ lastEmbed.raised = "none"
    /\ probe.op = "none"
    /\ \E noise \in NoiseSamples, decoy \in DecoyStreams :
          LET out == embed(fs, lastEmbed.cover_image_path, lastEmbed.message,
                           lastEmbed.password, lastEmbed.epsilon, PathAgain,
                           noise, decoy)
          IN  /\ fs' = out.files
              /\ probe' = [op |-> "embed", save_path |-> PathAgain,
                           noise |-> IF out.raised = "none" THEN noise ELSE <<>>,
                           raised |-> out.raised, ret |-> out.ret]
    /\ UNCHANGED <<lastEmbed, lastExtract, np_random>>

NextTwoRuns == Embed \/ EmbedAgain

SpecTwoRuns == Init /\ [][NextTwoRuns]_vars

\* ------------------------------------------------ core_engine.py, save paths
\* the save paths callers name: 's', 'c.jpg', 'o.PNG', 'a.b.jpg', 'd.v/o'
\* and 'd.v/o.bmp', the directory d.v existing
SavePathProbes ==
    {PathOut, PathCoverJpg,
     <<"o", ".", "P", "N", "G">>,
     <<"a", ".", "b", ".", "j", "p", "g">>,
     <<"d", ".", "v", "/", "o">>,
     <<"d", ".", "v", "/", "o", ".", "b", "m", "p">>}

\* One call of embed that saves to one of the probe paths.
EmbedTo ==
    /\ lastEmbed.op = "none"
    /\ \E message \in Messages, save_path \in SavePathProbes,
          noise \in NoiseSamples, decoy \in DecoyStreams :
          LET out == embed(fs, PathCover, message, "secret", <<1, 1>>,
                           save_path, noise, decoy)
          IN  /\ fs' = out.files
              /\ lastEmbed' =
                   [op |-> "embed", cover_image_path |-> PathCover,
                    message |-> message, password |-> "secret",
                    epsilon |-> <<1, 1>>, save_path |-> save_path,
                    noise |-> IF out.raised = "none" THEN noise ELSE <<>>,
                    before |-> fs, raised |-> out.raised, ret |-> out.ret,
                    path_request |-> out.path_request]
    /\ UNCHANGED <<lastExtract, probe, np_random>>

\* One call of embed_standard_lsb that saves to one of the probe paths.
EmbedStandardTo ==
    /\ lastEmbed.op = "none"
    /\ \E message \in Messages, save_path \in SavePathProbes :
          LET out == embed_standard_lsb(fs, PathCover, message, save_path)
          IN  /\ fs' = out.files
              /\ lastEmbed' =
                   [op |-> "embed_standard_lsb", cover_image_path |-> PathCover,
                    message |-> message, save_path |-> save_path,
                    before |-> fs, raised |-> out.raised, ret |-> out.ret,
                    path_request |-> out.path_request]
    /\ UNCHANGED <<lastExtract, probe, np_random>>

NextSave == EmbedTo \/ EmbedStandardTo

SpecSave == Init /\ [][NextSave]_vars

\* ------------------------------------------------------------ the claims
\* utils.py, pixel_to_index
pixel_to_index(row, col, channel, width, channels) ==
    row * (width * channels) + col * channels + channel

Range(seq) == {seq[i] : i \in 1..Len(seq)}

EmbedDone == lastEmbed.op = "embed"
EmbedOk == EmbedDone /\ lastEmbed.raised = "none"
ExtractDone == lastExtract.op = "extract"

\* the cover image the embedding call read, and the bits of its message
CoverRead == lastEmbed.before[lastEmbed.cover_image_path]
MessageBitCount == Len(string_to_bits(lastEmbed.message))

\* the extraction reads the stego image the embedding wrote, with the
\* embedding's password and the bit length of the embedded message
RoundTripCase ==
    /\ EmbedOk
    /\ ExtractDone
    /\ lastExtract.stego_image_path = lastEmbed.ret.save_path
    /\ lastExtract.password = lastEmbed.password
    /\ lastExtract.message_length_bits = lastEmbed.ret.message_length_bits

\* C1: round trip.  Whenever a message has been embedded (any noise sample,
\* any decoy bits, any epsilon > 0) and is then extracted from the stego
\* image with the same password and the message's bit length, the
\* extraction returns exactly the message.
C1_RoundTrip ==
    RoundTripCase =>
        /\ lastExtract.raised = "none"
        /\ lastExtract.val = lastEmbed.message

\* The round trip restricted to messages of single-byte characters.
RoundTripSingleByte ==
    (RoundTripCase /\ \A i \in 1..Len(lastEmbed.message) : lastEmbed.message[i] < 256)
        => /\ lastExtract.raised = "none"
           /\ lastExtract.val = lastEmbed.message

\* C2: prefix consistency.  For one seed and one image shape, whenever two
\* calls of get_pixel_indices ask for N1 <= N2 indices (0 <= N1, N2 <= T),
\* the sequence returned for N1 is the first N1 elements of the sequence
\* returned for N2; with N1 = N2 the two calls return the same sequence.
C2_PrefixConsistency ==
    probe.op = "get_pixel_indices" =>
        \A i, j \in 1..Len(probe.calls) :
            LET a == probe.calls[i]
                b == probe.calls[j]
            IN  (0 <= a.num_channels /\ a.num_channels <= b.num_channels
                   /\ b.out.raised = "none")
                => /\ a.out.raised = "none"
                   /\ a.out.val = SubSeq(b.out.val, 1, a.num_channels)

C2_Witness ==
    /\ probe.op = "get_pixel_indices"
    /\ Len(probe.calls) = 2
    /\ probe.calls[1].num_channels = 24
    /\ probe.calls[2].num_channels = 8
    /\ probe.calls[1].out.raised = "none"
    /\ probe.calls[2].out.val = SubSeq(probe.calls[1].out.val, 1, 8)
    /\ probe.calls[1].out.val # arange(24)

\* C3: for every seed and every N with 0 <= N <= T, get_pixel_indices
\* returns exactly N pairwise distinct indices of [0, T); for N = T they are
\* all of {0, ..., T-1}.
C3_DistinctIndices ==
    probe.op = "get_pixel_indices" =>
        \A i \in 1..Len(probe.calls) :
            LET c == probe.calls[i]
                T == probe.image_shape[1] * probe.image_shape[2] * probe.image_shape[3]
            IN  (0 <= c.num_channels /\ c.num_channels <= T)
                => /\ c.out.raised = "none"
                   /\ Len(c.out.val) = c.num_channels
                   /\ \A x, y \in 1..Len(c.out.val) :
                          x # y => c.out.val[x] # c.out.val[y]
                   /\ Range(c.out.val) \subseteq 0..(T - 1)
                   /\ (c.num_channels = T => Range(c.out.val) = 0..(T - 1))

C3_Witness ==
    /\ probe.op = "get_pixel_indices"
    /\ \E i \in 1..Len(probe.calls) :
          /\ probe.calls[i].num_channels = 24
          /\ Range(probe.calls[i].out.val) = 0..23
    /\ \E i \in 1..Len(probe.calls) :
          /\ probe.calls[i].num_channels = 5
          /\ Cardinality(Range(probe.calls[i].out.val)) = 5

\* C4 (as stated): for every successful embed, whatever Laplace sample is
\* drawn, the noisy_count reported is at least message_length_bits.
C4_NoisyCountAtLeastTrue ==
    EmbedOk => lastEmbed.ret.noisy_count >= lastEmbed.ret.message_length_bits

\* C4 (amended): for every successful embed, total_pixels_modified is at
\* least message_length_bits, and the noisy_count reported is at least
\* message_length_bits exactly when the Laplace sample is greater than -1.
C4_NoisyCountAmended ==
    EmbedOk =>
        /\ lastEmbed.ret.total_pixels_modified >= lastEmbed.ret.message_length_bits
        /\ (lastEmbed.ret.noisy_count >= lastEmbed.ret.message_length_bits
              <=> lastEmbed.noise[1] > -lastEmbed.noise[2])

C4_Witness ==
    /\ EmbedOk
    /\ lastEmbed.ret.message_length_bits = 16
    /\ lastEmbed.ret.noisy_count = 15
    /\ lastEmbed.ret.total_pixels_modified = 16

\* C5: floor and clip.  For every embed call whose message fits, whatever
\* the noise sample, the call succeeds, the number of slots modified is
\* min(max(C, noisyCount), T), it lies between message_length_bits and
\* total_capacity, and it is the count handed to the path generator.
C5_FloorAndClip ==
    (EmbedDone /\ lastEmbed.cover_image_path \in DOMAIN lastEmbed.before
       /\ MessageBitCount <= capacity(CoverRead))
    => /\ lastEmbed.raised = "none"
       /\ lastEmbed.ret.total_pixels_modified =
             Min(Max(lastEmbed.ret.message_length_bits, lastEmbed.ret.noisy_count),
                 lastEmbed.ret.total_capacity)
       /\ lastEmbed.ret.message_length_bits <= lastEmbed.ret.total_pixels_modified
       /\ lastEmbed.ret.total_pixels_modified <= lastEmbed.ret.total_capacity
       /\ lastEmbed.ret.total_capacity = capacity(CoverRead)
       /\ lastEmbed.path_request = lastEmbed.ret.total_pixels_modified

\* a sample far above the capacity is clipped to it
C5_Witness ==
    /\ EmbedOk
    /\ lastEmbed.ret.message_length_bits = 8
    /\ lastEmbed.ret.noisy_count > lastEmbed.ret.total_capacity
    /\ lastEmbed.ret.total_pixels_modified = 24
    /\ lastEmbed.path_request = 24

\* C6: capacity boundary.  An embed call on an existing cover succeeds when
\* the message's bit count is at most the capacity T (T itself included), for
\* every noise sample, and fails with the message-too-large error when the
\* bit count is T + 1 or more.
C6_CapacityBoundary ==
    (EmbedDone /\ lastEmbed.cover_image_path \in DOMAIN lastEmbed.before)
    => /\ (MessageBitCount <= capacity(CoverRead) => lastEmbed.raised = "none")
       /\ (MessageBitCount >= capacity(CoverRead) + 1
             => lastEmbed.raised = "ValueError: message too large")

\* three single-byte characters fill a 2 x 4 image exactly
C6_Witness ==
    /\ EmbedOk
    /\ lastEmbed.message = <<65, 65, 65>>
    /\ lastEmbed.ret.message_length_bits = 24
    /\ lastEmbed.ret.total_capacity = 24

\* the stego image an embedding call wrote
StegoWritten == fs[lastEmbed.ret.save_path]

\* the path the embedding call walked
EmbedPath ==
    get_pixel_indices(shape(CoverRead), lastEmbed.ret.total_pixels_modified,
                      password_to_seed(lastEmbed.password)).val

\* C7: frame of embed.  The stego image has the cover's shape; every channel
\* value keeps its upper seven bits; and every slot that is not among the
\* first total_pixels_modified elements of the password's path holds the
\* cover's value.
C7_Frame ==
    EmbedOk =>
        LET on_path == Range(EmbedPath)
            cover == CoverRead
            stego == StegoWritten
        IN  /\ stego.height = cover.height
            /\ stego.width = cover.width
            /\ \A row \in 0..(cover.height - 1), col \in 0..(cover.width - 1),
                  channel \in 0..2 :
                  LET old == cover.arr[row][col][channel]
                      new == stego.arr[row][col][channel]
                  IN  /\ new \div 2 = old \div 2
                      /\ new \in 0..255
                      /\ pixel_to_index(row, col, channel, cover.width, 3)
                            \notin on_path => new = old

\* some slot on the path changed, and some slot lies off the path
C7_Witness ==
    /\ EmbedOk
    /\ StegoWritten.arr # CoverRead.arr
    /\ lastEmbed.ret.total_pixels_modified < lastEmbed.ret.total_capacity
    /\ lastEmbed.ret.decoy_pixels > 0

\* C8: after any embed call, successful or failed, for any save path, the
\* cover image the caller supplied holds the pixel data it held before.
C8_CoverUnchanged ==
    (EmbedDone /\ lastEmbed.cover_image_path \in DOMAIN lastEmbed.before)
    => /\ lastEmbed.cover_image_path \in DOMAIN fs
       /\ fs[lastEmbed.cover_image_path] = CoverRead

\* C9: when the message has more bits than the image has slots, embed and
\* embed_standard_lsb fail with the message-too-large error and leave every
\* file as it was: nothing is modified, no stego image is written.
C9_FailureBeforeMutation ==
    (lastEmbed.op \in {"embed", "embed_standard_lsb"}
       /\ lastEmbed.cover_image_path \in DOMAIN lastEmbed.before
       /\ MessageBitCount > capacity(CoverRead))
    => /\ lastEmbed.raised = "ValueError: message too large"
       /\ fs = lastEmbed.before
       /\ lastEmbed.ret = <<>>

C9_Witness ==
    /\ lastEmbed.op = "embed_standard_lsb"
    /\ lastEmbed.raised = "ValueError: message too large"
    /\ MessageBitCount = capacity(CoverRead) + 1
    /\ fs = lastEmbed.before

\* C10: extract fails with the invalid-length error whenever the bit count
\* asked for exceeds T, and then reads no slot; a bit count of exactly T is
\* accepted and reads every slot of the image exactly once.
C10_ExtractBoundary ==
    ExtractDone =>
        LET T == capacity(fs[lastExtract.stego_image_path])
        IN  /\ lastExtract.message_length_bits > T
              => /\ lastExtract.raised = "ValueError: invalid message length"
                 /\ lastExtract.reads = <<>>
            /\ lastExtract.message_length_bits = T
              => /\ lastExtract.raised = "none"
                 /\ Len(lastExtract.reads) = T
                 /\ Range(lastExtract.reads) = 0..(T - 1)

C10_Witness ==
    /\ ExtractDone
    /\ lastExtract.message_length_bits = 24
    /\ lastExtract.raised = "none"
    /\ Len(lastExtract.reads) = 24
    /\ Len(lastExtract.val) = 3
\* C11: for every message embed accepts, string_to_bits returns exactly 8
\* bits per character, each character's bits being its code value in binary,
\* most significant bit first, and bits_to_string(string_to_bits(m)) = m.
C11_EightBitsPerChar ==
    EmbedOk =>
        LET m == lastEmbed.message
            bits == string_to_bits(m)
        IN  /\ Len(bits) = 8 * Len(m)
            /\ lastEmbed.ret.message_length_bits = 8 * Len(m)
            /\ \A i \in 1..Len(m), k \in 1..8 :
                  bits[8 * (i - 1) + k] = (m[i] \div (2 ^ (8 - k))) % 2
            /\ bits_to_string(bits) = m

\* the image an extraction call read
StegoRead == fs[lastExtract.stego_image_path]

\* C12 (as stated): an extraction asked for a bit count that is not a
\* multiple of 8 ends in an error instead of returning a string.
C12_DecodeFailsOffByte ==
    (ExtractDone /\ lastExtract.message_length_bits % 8 # 0)
        => lastExtract.raised # "none"

\* C12 (amended): decoding never fails on a bit count that is not a
\* multiple of 8.  An extraction asked for n bits, 1 <= n <= T, 8 not
\* dividing n, returns a string of n div 8 + 1 characters whose last
\* character is the value of the trailing n mod 8 bits read, most
\* significant bit first.
C12_PartialChunkDecoded ==
    ExtractDone =>
        LET n == lastExtract.message_length_bits
            T == capacity(StegoRead)
            tail == [k \in 1..(n % 8) |->
                       channel_value(StegoRead,
                                     lastExtract.reads[8 * (n \div 8) + k]) % 2]
        IN  (1 <= n /\ n <= T /\ n % 8 # 0)
            => /\ lastExtract.raised = "none"
               /\ Len(lastExtract.val) = (n \div 8) + 1
               /\ lastExtract.val[Len(lastExtract.val)] = int_base2(tail)

\* eleven bits: one whole character and a character of three bits
C12_Witness ==
    /\ ExtractDone
    /\ lastExtract.message_length_bits = 11
    /\ lastExtract.raised = "none"
    /\ Len(lastExtract.val) = 2
    /\ lastExtract.val[2] \in 1..7

\* C13: a wrong extraction length is not detected.  For every password and
\* every bit count n with 1 <= n <= T, whether or not n is the embedded
\* message's bit length, extract returns a string and raises no error.
C13_WrongLengthUndetected ==
    ExtractDone =>
        LET n == lastExtract.message_length_bits
        IN  (1 <= n /\ n <= capacity(StegoRead))
            => /\ lastExtract.raised = "none"
               /\ Len(lastExtract.reads) = n
               /\ \A i \in 1..Len(lastExtract.val) : lastExtract.val[i] \in 0..255

\* the wrong password and a length that is not the message's: a string
\* comes back, and it is not the message
C13_Witness ==
    /\ EmbedOk
    /\ ExtractDone
    /\ lastExtract.stego_image_path = lastEmbed.ret.save_path
    /\ lastExtract.password # lastEmbed.password
    /\ lastEmbed.ret.message_length_bits = 16
    /\ lastExtract.message_length_bits = 13
    /\ lastExtract.raised = "none"
    /\ lastExtract.val # lastEmbed.message
\* C16: the baseline embedder.  A successful embed_standard_lsb writes
\* message bit i to the least significant bit of the slot whose flat raster
\* index is i, for i in [0, C); it leaves every slot with index >= C and the
\* upper seven bits of every slot unchanged; so the least significant bits
\* of the first C slots in raster order are the message bits.
C16_SequentialLsb ==
    (lastEmbed.op = "embed_standard_lsb" /\ lastEmbed.raised = "none") =>
        LET cover == CoverRead
            stego == StegoWritten
            bits == string_to_bits(lastEmbed.message)
            C == Len(bits)
        IN  /\ stego.height = cover.height
            /\ stego.width = cover.width
            /\ \A i \in 0..(capacity(cover) - 1) :
                  LET old == channel_value(cover, i)
                      new == channel_value(stego, i)
                  IN  /\ new \div 2 = old \div 2
                      /\ i < C => new % 2 = bits[i + 1]
                      /\ i >= C => new = old
            /\ [i \in 1..C |-> channel_value(stego, i - 1) % 2] = bits

\* one character in a 2 x 4 image: eight slots written, sixteen left alone
C16_Witness ==
    /\ lastEmbed.op = "embed_standard_lsb"
    /\ lastEmbed.raised = "none"
    /\ lastEmbed.message = <<65>>
    /\ lastEmbed.ret.total_capacity = 24
    /\ StegoWritten.arr # CoverRead.arr
    /\ channel_value(StegoWritten, 7) % 2 = 1
    /\ channel_value(CoverRead, 7) % 2 = 0
FracEq(x, y) == x[1] * y[2] = y[1] * x[2]

\* C14: degenerate epsilon.  An embed call with epsilon <= 0, or any
\* epsilon below 0.01, does not fail: it behaves as the call with epsilon =
\* 0.01 does (Laplace scale 8 / 0.01 = 800, the same draws, the same stego
\* image) and reports epsilon = 0.01 and laplace_scale = 800.  For epsilon >=
\* 0.01 the scale is 8 / epsilon and the epsilon reported is the one passed.
C14_EpsilonClamp ==
    (EmbedDone /\ lastEmbed.cover_image_path \in DOMAIN lastEmbed.before
       /\ MessageBitCount <= capacity(CoverRead))
    => LET epsilon == lastEmbed.epsilon
           floored == embed_np(lastEmbed.before, lastEmbed.np_random_before,
                               lastEmbed.cover_image_path, lastEmbed.message,
                               lastEmbed.password, EpsilonFloor,
                               lastEmbed.save_path)
       IN  /\ lastEmbed.raised = "none"
           /\ FracLess(epsilon, <<1, 100>>)
                => /\ lastEmbed.ret.epsilon = <<1, 100>>
                   /\ FracEq(lastEmbed.ret.laplace_scale, <<800, 1>>)
                   /\ lastEmbed.noise = floored.noise
                   /\ lastEmbed.ret = floored.out.ret
                   /\ fs = floored.out.files
                   /\ np_random = floored.np_random
           /\ ~FracLess(epsilon, <<1, 100>>)
                => /\ lastEmbed.ret.epsilon = epsilon
                   /\ FracEq(lastEmbed.ret.laplace_scale, <<8 * epsilon[2], epsilon[1]>>)

\* epsilon = 0 and a draw that the scale 800 carries beyond the capacity
C14_Witness ==
    /\ EmbedOk
    /\ lastEmbed.epsilon = <<0, 1>>
    /\ lastEmbed.ret.epsilon = <<1, 100>>
    /\ lastEmbed.ret.laplace_scale = <<800, 1>>
    /\ lastEmbed.ret.noisy_count > lastEmbed.ret.total_capacity

\* C15: calls share no mutable state.  The noise sample and the decoy bits
\* an embed call draws are not determined or perturbed by any other call:
\* an embed made after a generate_random_lsb_image call draws, reports and
\* writes what it would have without that call.
C15_NoSharedState ==
    (EmbedOk /\ probe.op = "generate_random_lsb_image")
    => LET alone == embed_np(lastEmbed.before, probe.np_random_before,
                             lastEmbed.cover_image_path, lastEmbed.message,
                             lastEmbed.password, lastEmbed.epsilon,
                             lastEmbed.save_path)
       IN  /\ lastEmbed.noise = alone.noise
           /\ lastEmbed.ret = alone.out.ret
           /\ fs = alone.out.files
\* the flat slot indices a channel argument selects in an image
SelectedSlots(img, channel) ==
    IF lower(channel) = ChannelAll THEN 0..(capacity(img) - 1)
    ELSE LET c == IF lower(channel) = ChannelRed THEN 0
                  ELSE IF lower(channel) = ChannelGreen THEN 1 ELSE 2
         IN  {i \in 0..(capacity(img) - 1) : i % 3 = c}

\* C17: the chi-square test.  The zero and one counts are the numbers of
\* selected channel values whose least significant bit is 0 and 1; they sum
\* to H * W for a single channel and to H * W * 3 for 'all'; the deviation is
\* |100 * count0 / total - 50|; the statistic is (count0 - count1)^2 / total;
\* and the verdict is the non-random one exactly when the statistic's
\* p-value with one degree of freedom is below 0.05, that is when the
\* statistic exceeds 3.8415.
C17_ChiSquareTest ==
    (probe.op = "chi_square_attack" /\ probe.raised = "none") =>
        LET img == fs[probe.image_path]
            sel == SelectedSlots(img, probe.channel)
            zeros == Cardinality({i \in sel : channel_value(img, i) % 2 = 0})
            ones == Cardinality({i \in sel : channel_value(img, i) % 2 = 1})
            total == zeros + ones
            off == 100 * zeros - 50 * total
        IN  /\ probe.ret.lsb_0_count = zeros
            /\ probe.ret.lsb_1_count = ones
            /\ probe.ret.total_pixels = total
            /\ total = IF lower(probe.channel) = ChannelAll
                       THEN img.height * img.width * 3
                       ELSE img.height * img.width
            /\ FracEq(probe.ret.deviation_from_50_50,
                      <<IF off < 0 THEN -off ELSE off, total>>)
            /\ FracEq(probe.ret.chi_square_statistic,
                      <<(zeros - ones) * (zeros - ones), total>>)
            /\ probe.ret.verdict \in {"NON-RANDOM LSB DISTRIBUTION",
                                      "RANDOM-LOOKING LSB DISTRIBUTION"}
            /\ probe.ret.verdict = "NON-RANDOM LSB DISTRIBUTION"
                 <=> (zeros - ones) * (zeros - ones) * 10000 > 38415 * total

\* 65 zeros and 43 ones among 108 values: the statistic 484 / 108 is the
\* first beyond the critical value
C17_Witness ==
    /\ probe.op = "chi_square_attack"
    /\ probe.raised = "none"
    /\ probe.channel = ChannelAll
    /\ probe.ret.lsb_0_count = 65
    /\ probe.ret.lsb_1_count = 43
    /\ probe.ret.verdict = "NON-RANDOM LSB DISTRIBUTION"
    /\ FracEq(probe.ret.deviation_from_50_50, <<275, 27>>)

\* the all-channel deviation of an image file
AllChannelDeviation(path) ==
    chi_square_attack(fs, path, ChannelAll).ret.deviation_from_50_50

\* C18: compare_images.  deviation_change is the absolute difference of the
\* two all-channel deviations; the rating is EXCELLENT when it is below 0.5,
\* GOOD from 0.5 to below 1.0, FAIR from 1.0 to below 2.0, POOR from 2.0 on;
\* an image compared with itself rates EXCELLENT, with deviation_change 0
\* and detection_changed false.
C18_CompareImages ==
    (probe.op = "compare_images" /\ probe.raised = "none") =>
        LET d == probe.ret.changes.deviation_change
            diff == FracSub(AllChannelDeviation(probe.stego_path),
                            AllChannelDeviation(probe.original_path))
            rating == probe.ret.effectiveness.rating
        IN  /\ d[1] >= 0
            /\ FracEq(d, diff) \/ FracEq(d, <<-diff[1], diff[2]>>)
            /\ rating = "EXCELLENT" <=> FracLess(d, <<1, 2>>)
            /\ rating = "GOOD" <=> (~FracLess(d, <<1, 2>>) /\ FracLess(d, <<1, 1>>))
            /\ rating = "FAIR" <=> (~FracLess(d, <<1, 1>>) /\ FracLess(d, <<2, 1>>))
            /\ rating = "POOR" <=> ~FracLess(d, <<2, 1>>)
            /\ fs[probe.original_path] = fs[probe.stego_path]
                 => /\ rating = "EXCELLENT"
                    /\ d[1] = 0
                    /\ probe.ret.changes.detection_changed = FALSE

\* one slot fewer with bit 1 among 108, and a deviation that falls: the
\* change 100 / 108 rates GOOD
C18_Witness ==
    /\ probe.op = "compare_images"
    /\ probe.raised = "none"
    /\ probe.ret.effectiveness.rating = "GOOD"
    /\ FracEq(probe.ret.changes.deviation_change, <<25, 27>>)
    /\ FracLess(probe.ret.changes.stego_deviation,
                probe.ret.changes.original_deviation)

\* C19: the overall verdict of multi_channel_analysis is DETECTED if any of
\* the red, green or blue single-channel tests is detected (p < 0.05) and
\* UNDETECTED otherwise, and channels_detected lists exactly the detected
\* channels.
C19_OverallVerdict ==
    (probe.op = "multi_channel_analysis" /\ probe.raised = "none") =>
        LET channels == <<ChannelRed, ChannelGreen, ChannelBlue>>
            Detected(i) ==
                p_value_less(chi_square_attack(fs, probe.image_path,
                                               channels[i]).ret.p_value,
                             <<5, 100>>)
        IN  /\ probe.ret.overall_verdict = "DETECTED"
                 <=> \E i \in 1..3 : Detected(i)
            /\ probe.ret.overall_verdict \in {"DETECTED", "UNDETECTED"}
            /\ Range(probe.ret.channels_detected) = {i \in 1..3 : Detected(i)}

\* C20: the PSNR identity.  An image compared with itself has MSE 0, an
\* infinite PSNR, no pixel changed and the quality "Identical"; and the MSE
\* is greater than 0 whenever at least one channel value differs.
C20_PsnrIdentity ==
    (probe.op = "calculate_visual_difference" /\ probe.raised = "none") =>
        LET orig == fs[probe.original_path]
            stego == fs[probe.stego_path]
        IN  /\ orig = stego
                 => /\ probe.ret.mse[1] = 0
                    /\ probe.ret.psnr.inf
                    /\ probe.ret.pixels_changed = 0
                    /\ probe.ret.quality_rating = "Identical (no changes)"
            /\ (\E i \in 0..(capacity(orig) - 1) :
                   channel_value(orig, i) # channel_value(stego, i))
                 => /\ probe.ret.mse[1] > 0
                    /\ ~probe.ret.psnr.inf
                    /\ probe.ret.quality_rating # "Identical (no changes)"

\* two files holding the same image
C20_Witness ==
    /\ probe.op = "calculate_visual_difference"
    /\ probe.raised = "none"
    /\ probe.original_path # probe.stego_path
    /\ fs[probe.original_path] = fs[probe.stego_path]
    /\ probe.ret.psnr.inf
    /\ probe.ret.mse = <<0, 108>>
    /\ probe.ret.pixels_changed = 0
    /\ probe.ret.quality_rating = "Identical (no changes)"
ValidChannels == {ChannelRed, ChannelGreen, ChannelBlue, ChannelAll}

\* s spells the lower-case name, letter by letter, in either case
Spells(s, name) ==
    /\ Len(s) = Len(name)
    /\ \A i \in 1..Len(name) :
          \/ s[i] = name[i]
          \/ \E k \in 1..Len(LowerCase) : LowerCase[k] = name[i] /\ UpperCase[k] = s[i]

IsValidChannel(s) == \E name \in ValidChannels : Spells(s, name)

\* C21: chi_square_attack rejects every channel selector outside red, green,
\* blue, all with the error that enumerates the valid values, and counts no
\* least significant bit then; the four valid names are accepted in any
\* letter case.
C21_ChannelSelector ==
    (probe.op = "chi_square_attack" /\ probe.image_path \in DOMAIN fs) =>
        /\ ~IsValidChannel(probe.channel)
             => /\ probe.raised =
                     "ValueError: Channel must be 'red', 'green', 'blue', or 'all'"
                /\ probe.ret = <<>>
        /\ IsValidChannel(probe.channel)
             => /\ probe.raised = "none"
                /\ probe.ret.lsb_0_count + probe.ret.lsb_1_count
                     = probe.ret.total_pixels

\* 'Red' is accepted as red
C21_Witness ==
    /\ probe.op = "chi_square_attack"
    /\ probe.channel = <<"R", "e", "d">>
    /\ probe.raised = "none"
    /\ probe.ret.channel = "Red"
    /\ probe.ret.total_pixels = 36

\* max(0.01, epsilon) as a fraction
FlooredEpsilon(epsilon) ==
    IF epsilon[1] * 100 < epsilon[2] THEN <<1, 100>> ELSE epsilon

\* C22: calculate_epsilon_visibility.  With the scales 8 / max(0.01,
\* epsilon_low) and 8 / max(0.01, epsilon_high), statistically_visible is
\* true if and only if the capacity usage 100 * message_bits / capacity is at
\* least 5 and the absolute difference of the scales is at least 10; when it
\* is false the recommendation blames low capacity exactly when the usage is
\* below 5, and reports a marginal difference otherwise.
C22_EpsilonVisibility ==
    (probe.op = "calculate_epsilon_visibility" /\ probe.image_capacity > 0) =>
        LET low == FlooredEpsilon(probe.epsilon_low)
            high == FlooredEpsilon(probe.epsilon_high)
            \* 8/low - 8/high = 8 * (high - low) / (low * high), over a
            \* positive denominator
            num == 8 * (low[2] * high[1] - high[2] * low[1])
            den == low[1] * high[1]
            far == (IF num < 0 THEN -num ELSE num) >= 10 * den
            used == 100 * probe.message_bits >= 5 * probe.image_capacity
        IN  /\ probe.raised = "none"
            /\ FracEq(probe.ret.scale_low_epsilon, <<8 * low[2], low[1]>>)
            /\ FracEq(probe.ret.scale_high_epsilon, <<8 * high[2], high[1]>>)
            /\ probe.ret.statistically_visible <=> (used /\ far)
            /\ ~probe.ret.statistically_visible
                 => (probe.ret.recommendation =
                       "Epsilon effects NOT visible - capacity usage too low"
                     <=> ~used)
            /\ (~probe.ret.statistically_visible /\ used)
                 => probe.ret.recommendation = "Epsilon effects MARGINAL"

\* exactly 5 percent used and a difference of exactly 10: visible
C22_Witness ==
    /\ probe.op = "calculate_epsilon_visibility"
    /\ probe.message_bits = 8
    /\ probe.image_capacity = 160
    /\ probe.epsilon_low = <<4, 10>>
    /\ probe.epsilon_high = <<8, 10>>
    /\ probe.ret.statistically_visible
    /\ FracEq(probe.ret.expected_noise_difference, <<10, 1>>)
LabDone == probe.op = "run_comparison_test" /\ probe.raised = "none"

\* C23: detectability ordering.  On the seeded near-uniform baseline image,
\* with at least 5 percent of the capacity used, embedding a message with
\* embed_standard_lsb yields a strictly larger deviation_change against the
\* original than embedding the same message with embed at a low epsilon,
\* whatever the noise sample and the decoy bits.
C23_DetectabilityOrdering ==
    (LabDone /\ probe.ret.standard_result.message_length_bits * 100
                  >= 5 * probe.ret.standard_result.total_capacity)
    => FracLess(probe.ret.dp_comparison.changes.deviation_change,
                probe.ret.standard_comparison.changes.deviation_change)
\* the channel values of two images differ by at most 1 everywhere
WithinOne(original, stego) ==
    /\ shape(original) = shape(stego)
    /\ \A channel_index \in 0..(capacity(original) - 1) :
          LET d == channel_value(stego, channel_index)
                     - channel_value(original, channel_index)
          IN  d \in {-1, 0, 1}

\* what C29 says of one stego image of the comparison test
DistortionBounded(stego_path, result, visual) ==
    /\ WithinOne(fs[PathTestOriginal], fs[stego_path])
    /\ visual.pixels_changed <= result.total_pixels_modified
    /\ FracEq(visual.mse, <<visual.pixels_changed, visual.total_pixels>>)
    /\ ~FracLess(<<1, 1>>, visual.mse)
    /\ visual.quality_rating \in {"Identical (no changes)",
                                  "Excellent (imperceptible changes)"}

\* C29: distortion bound.  For the stego image of embed and of
\* embed_standard_lsb against their cover: every channel value differs by at
\* most 1, pixels_changed is at most total_pixels_modified, the MSE is
\* pixels_changed / total and at most 1, and calculate_visual_difference
\* rates the pair Identical or Excellent, never Good, Fair or Poor.
C29_DistortionBound ==
    LabDone =>
        /\ DistortionBounded(PathTestStandard, probe.ret.standard_result,
                             probe.ret.visual_standard)
        /\ DistortionBounded(PathTestDp, probe.ret.dp_result, probe.ret.visual_dp)

\* a run where both embedders changed values and the DP run wrote decoys
C29_Witness ==
    /\ LabDone
    /\ probe.ret.visual_standard.pixels_changed > 0
    /\ probe.ret.visual_dp.pixels_changed > 0
    /\ probe.ret.dp_result.decoy_pixels > 0
    /\ probe.ret.visual_dp.pixels_changed < probe.ret.dp_result.total_pixels_modified
\* C24: noisy count.  For every real Laplace sample eta, negative
\* non-integer ones included, the noisy count embed computes is the message
\* bit count plus the floor of eta.
C24_NoisyCountFloor ==
    EmbedOk =>
        lastEmbed.ret.noisy_count
            = lastEmbed.ret.message_length_bits + int_trunc_Floor(lastEmbed.noise)

\* C24 as the code has it: the noisy count is the message bit count plus eta
\* truncated towards zero, which is the floor of eta only when eta is
\* non-negative or an integer.
C24_NoisyCountTruncates ==
    EmbedOk =>
        LET eta == lastEmbed.noise
            added == lastEmbed.ret.noisy_count - lastEmbed.ret.message_length_bits
        IN  /\ lastEmbed.ret.noise_added = added
            /\ IF eta[1] >= 0
               THEN added * eta[2] <= eta[1] /\ eta[1] < (added + 1) * eta[2]
               ELSE (added - 1) * eta[2] < eta[1] /\ eta[1] <= added * eta[2]

\* a sample of -0.5 left the count at the message's bit count
C24_Witness ==
    /\ EmbedOk
    /\ lastEmbed.noise = <<-1, NoiseDen>>
    /\ lastEmbed.ret.noisy_count = lastEmbed.ret.message_length_bits
    /\ lastEmbed.ret.message_length_bits > 0

\* the extraction reads the stego image the embedding wrote, with the
\* embedding's password, asking for the bits of the first k characters
PrefixCase(k) ==
    /\ EmbedOk
    /\ ExtractDone
    /\ lastExtract.stego_image_path = lastEmbed.ret.save_path
    /\ lastExtract.password = lastEmbed.password
    /\ lastExtract.message_length_bits = 8 * k

\* C27: prefix extraction.  For every k from 0 to the length of the embedded
\* message M, extracting 8*k bits from the stego image with the embedding's
\* password returns exactly the first k characters of M.
C27_PrefixExtraction ==
    \A k \in 0..MaxMsgLen :
        (PrefixCase(k) /\ k <= Len(lastEmbed.message))
        => /\ lastExtract.raised = "none"
           /\ lastExtract.val = SubSeq(lastEmbed.message, 1, k)

\* Prefix extraction restricted to messages of single-byte characters.
PrefixSingleByte ==
    \A k \in 0..MaxMsgLen :
        (PrefixCase(k) /\ k <= Len(lastEmbed.message)
           /\ \A i \in 1..Len(lastEmbed.message) : lastEmbed.message[i] < 256)
        => /\ lastExtract.raised = "none"
           /\ lastExtract.val = SubSeq(lastEmbed.message, 1, k)

\* C28: a requested bit count of zero or less.  The extraction is either
\* rejected or returns the empty string, and in neither case is the least
\* significant bit of any slot read.
C28_NonPositiveBitCount ==
    (ExtractDone /\ lastExtract.message_length_bits <= 0)
    => /\ lastExtract.raised # "none" \/ lastExtract.val = <<>>
       /\ lastExtract.reads = <<>>

\* A bit count of exactly zero returns the empty string and reads nothing.
ZeroBitCountReadsNothing ==
    (ExtractDone /\ lastExtract.message_length_bits = 0)
    => /\ lastExtract.raised = "none"
       /\ lastExtract.val = <<>>
       /\ lastExtract.reads = <<>>
\* the decoy bits the embedding call drew from the global generator: after
\* its Laplace sample, one np.random.randint(0, 2) for every decoy slot
DecoysDrawn ==
    LET lap == np_random_laplace(lastEmbed.np_random_before,
                                 lastEmbed.ret.laplace_scale)
    IN  np_random_randint(lap.state, 2, lastEmbed.ret.decoy_pixels).val

\* C25: the embedding loop.  With C message bits and finalCount slots
\* modified, the least significant bit of slot indices[i] is message bit i
\* for every i < C; the decoy bits are written only to the slots indices[i]
\* with C <= i < finalCount, in the order drawn; each slot is written at
\* most once, so no decoy overwrites a message bit; and decoy_pixels is
\* finalCount - C, which is never negative.
C25_EmbeddingLoop ==
    (EmbedOk /\ "np_random_before" \in DOMAIN lastEmbed) =>
        LET C == MessageBitCount
            message_bits == string_to_bits(lastEmbed.message)
            finalCount == lastEmbed.ret.total_pixels_modified
            indices == EmbedPath
            stego == StegoWritten
            decoys == DecoysDrawn
        IN  /\ lastEmbed.ret.decoy_pixels = finalCount - C
            /\ lastEmbed.ret.decoy_pixels >= 0
            /\ Len(indices) = finalCount
            /\ \A i, j \in 1..finalCount : indices[i] = indices[j] => i = j
            /\ \A i \in 1..C : channel_value(stego, indices[i]) % 2 = message_bits[i]
            /\ \A j \in 1..(finalCount - C) :
                  channel_value(stego, indices[C + j]) % 2 = decoys[j]
            /\ \A channel_index \in 0..(capacity(stego) - 1) :
                  channel_index \notin Range(indices)
                  => channel_value(stego, channel_index)
                       = channel_value(CoverRead, channel_index)

\* message bits and decoys of both values were written
C25_Witness ==
    /\ EmbedOk
    /\ "np_random_before" \in DOMAIN lastEmbed
    /\ MessageBitCount > 0
    /\ lastEmbed.ret.decoy_pixels >= 2
    /\ lastEmbed.ret.total_pixels_modified < lastEmbed.ret.total_capacity
    /\ {0, 1} \subseteq Range(DecoysDrawn)
TwoRunsDone == EmbedOk /\ probe.op = "embed" /\ probe.raised = "none"

\* C26: the noise affects only how many slots are modified.  Two embed runs
\* on the same cover, message and password that differ only in the Laplace
\* sample and the decoy bits produce stego images that agree on every one of
\* the first C slots of the path and on every slot beyond the longer of the
\* two modified prefixes; and extract, which takes neither epsilon nor
\* noise, returns the same string from both.
C26_NoiseOnlyCount ==
    TwoRunsDone =>
        LET first == fs[lastEmbed.ret.save_path]
            second == fs[probe.ret.save_path]
            T == capacity(first)
            C == MessageBitCount
            path == get_pixel_indices(shape(first), T,
                                      password_to_seed(lastEmbed.password)).val
            longer == Max(lastEmbed.ret.total_pixels_modified,
                          probe.ret.total_pixels_modified)
            from_first == extract(fs, lastEmbed.ret.save_path, lastEmbed.password, C)
            from_second == extract(fs, probe.ret.save_path, lastEmbed.password, C)
        IN  /\ shape(first) = shape(second)
            /\ Len(path) = T
            /\ \A i \in 1..C :
                  /\ channel_value(first, path[i]) = channel_value(second, path[i])
                  /\ channel_value(first, path[i]) % 2
                       = string_to_bits(lastEmbed.message)[i]
            /\ \A i \in 1..T :
                  i > longer
                  => channel_value(first, path[i]) = channel_value(second, path[i])
            /\ from_first.raised = "none"
            /\ from_first.val = from_second.val

\* two runs with different counts of modified slots whose images differ
C26_Witness ==
    /\ TwoRunsDone
    /\ MessageBitCount > 0
    /\ lastEmbed.ret.total_pixels_modified # probe.ret.total_pixels_modified
    /\ Max(lastEmbed.ret.total_pixels_modified, probe.ret.total_pixels_modified)
         < lastEmbed.ret.total_capacity
    /\ fs[lastEmbed.ret.save_path] # fs[probe.ret.save_path]
\* the position of the last `ch` of s, 0 when there is none
LastIndexOf(s, ch) ==
    IF \E i \in 1..Len(s) : s[i] = ch
    THEN CHOOSE i \in 1..Len(s) : s[i] = ch /\ \A j \in (i + 1)..Len(s) : s[j] # ch
    ELSE 0

\* a path's directory (with its separator) and its file name
DirectoryOf(p) == SubSeq(p, 1, LastIndexOf(p, "/"))
FileNameOf(p) == SubSeq(p, LastIndexOf(p, "/") + 1, Len(p))

\* a file name without its extension
BaseNameOf(name) ==
    IF LastIndexOf(name, ".") > 1 THEN SubSeq(name, 1, LastIndexOf(name, ".") - 1)
    ELSE name

\* the path ends in '.png', in any case
EndsInPng(p) ==
    /\ Len(p) >= 4
    /\ p[Len(p) - 3] = "."
    /\ p[Len(p) - 2] \in {"p", "P"}
    /\ p[Len(p) - 1] \in {"n", "N"}
    /\ p[Len(p)] \in {"g", "G"}

SaveDone == lastEmbed.op \in {"embed", "embed_standard_lsb"} /\ lastEmbed.raised = "none"

\* C30: output path normalisation.  embed and embed_standard_lsb write the
\* stego image to a path ending in '.png' (in any case) and report that path
\* as save_path; a requested path already ending in '.png' is used
\* unchanged; any other requested path is changed only in its file-name
\* extension, keeping its directory and its base name, also when it has no
\* extension or a dot in a directory component.
C30_OutputPath ==
    SaveDone =>
        LET requested == lastEmbed.save_path
            written == lastEmbed.ret.save_path
        IN  /\ written \in DOMAIN fs
            /\ DOMAIN fs \subseteq DOMAIN lastEmbed.before \cup {written}
            /\ EndsInPng(written)
            /\ EndsInPng(requested) => written = requested
            /\ ~EndsInPng(requested)
               => written = DirectoryOf(requested)
                              \o BaseNameOf(FileNameOf(requested)) \o DotPng

\* The normalisation as claimed, for requested paths whose last dot, if
\* any, is in the file name.
OutputPathDotInFileName ==
    (SaveDone /\ LastIndexOf(lastEmbed.save_path, ".")
                   \notin 1..LastIndexOf(lastEmbed.save_path, "/"))
    => LET requested == lastEmbed.save_path
           written == lastEmbed.ret.save_path
       IN  /\ written \in DOMAIN fs
           /\ EndsInPng(written)
           /\ EndsInPng(requested) => written = requested
           /\ ~EndsInPng(requested)
              => written = DirectoryOf(requested)
                             \o BaseNameOf(FileNameOf(requested)) \o DotPng
====
